---- MODULE Spec2Model ----
(***************************************************************************)
(* Model of random_meme.py: the settings lookup, the history store, the    *)
(* deduplicating fetch loop, the caption compositor, the display fitter,   *)
(* the wallpaper applier and the main pipeline.                            *)
(*                                                                         *)
(* Python values are tagged records, so that values of different Python    *)
(* types can be compared: None, PyInt(n), PyStr(s), PyList(l), PyDict(f).  *)
(***************************************************************************)
EXTENDS Integers, Sequences, FiniteSets, TLC

None == [t |-> "null"]
PyInt(n) == [t |-> "int", v |-> n]
PyStr(s) == [t |-> "str", v |-> s]
PyList(l) == [t |-> "list", v |-> l]
PyDict(f) == [t |-> "dict", d |-> f]

Range(s) == {s[i] : i \in DOMAIN s}
Min(a, b) == IF a < b THEN a ELSE b
Max(a, b) == IF a > b THEN a ELSE b

\* dict.get(k): the value under k, None when k is not a key
DictGet(dict, k) == IF k \in DOMAIN dict.d THEN dict.d[k] ELSE None

\* Python truth value of None or a string
Truthy(x) == x # None /\ x # PyStr("")

(***************************************************************************)
(* Bounds of the model                                                     *)
(***************************************************************************)
\* longest history file at the start of a run
MaxHistLen == 2
\* largest max_history a settings file configures (0..MaxMaxHistory)
MaxMaxHistory == 3
\* image and screen sides explored by the resize_image specification
MaxDim == 9
\* tallest caption bounding box explored
MaxBBox == 2
\* widest source image explored by the add_title_to_image specification,
\* in units of 10 pixels
MaxWidth10 == 12

(***************************************************************************)
(* Settings: DEFAULT_SETTINGS, load_settings, get_setting                  *)
(***************************************************************************)
DEFAULT_SETTINGS ==
    PyDict([font |-> PyDict([name |-> PyStr("arial.ttf"), size |-> PyInt(40)]),
          bottom_strip_height |-> PyInt(50),
          max_history |-> PyInt(100),
          subreddits |-> PyList(<<None, PyStr("programmingmemes"),
                                PyStr("ProgrammerHumor"), PyStr("lotrmemes"),
                                PyStr("MEOW_IRL"), PyStr("YouSeeComrade"),
                                PyStr("DunderMifflin"), PyStr("workmemes")>>)])

\* a settings.json: absent, or a JSON object
NoFile == [exists |-> FALSE]
File(content) == [exists |-> TRUE, content |-> content]

\* load_settings: the parsed file, DEFAULT_SETTINGS on FileNotFoundError
load_settings(file) == IF file.exists THEN file.content ELSE DEFAULT_SETTINGS

VARIABLES
    settingsFile,   \* settings.json on disk
    SETTINGS,       \* module global, load_settings() at import
    MAX_HISTORY,    \* module global, get_setting('max_history') at import
    historyFile,    \* meme_history.json on disk
    history,        \* get_random_meme's local list
    attempts,       \* Meme API calls made so far in get_random_meme
    api_url,        \* the URL of the latest Meme API call
    pc,             \* position of the __main__ block
    meme_title,     \* __main__: first component of get_random_meme's result
    meme_url,       \* __main__: second component
    img_path,       \* __main__: the image path, None when there is none
    wallpaperFile,  \* the temp-directory JPEG: None, or the size of the image
    printed,        \* the line __main__ printed, None before
    at,             \* the latest add_title_to_image call: inputs and outcome
    rz,             \* the latest resize_image call: inputs and outcome
    sw,             \* the latest set_wallpaper call: inputs and outcome
    gs,             \* the latest get_setting call: key and value
    seen,           \* what the get_random_meme call has been answered so
                    \* far (history variable, dropped with the call's frame)
    obs             \* observations of the run (history variable)

vars == <<settingsFile, SETTINGS, MAX_HISTORY, historyFile, history, attempts,
          api_url, pc, meme_title, meme_url, img_path, wallpaperFile, printed,
          at, rz, sw, gs, seen, obs>>

\* value[k] for each k of key.split('.'): the value reached, or the
\* KeyError / TypeError of a missing key or of subscripting a non-dict
RECURSIVE Traverse(_, _)
Traverse(value, parts) ==
    IF parts = <<>> THEN [ok |-> TRUE, value |-> value]
    ELSE IF value.t = "dict" /\ Head(parts) \in DOMAIN value.d
         THEN Traverse(value.d[Head(parts)], Tail(parts))
         ELSE [ok |-> FALSE]

\* DEFAULT_SETTINGS.get(key) with the unsplit key: a key with a dot in it
\* (more than one part) is none of DEFAULT_SETTINGS's keys
DefaultGet(parts) ==
    IF Len(parts) = 1 THEN DictGet(DEFAULT_SETTINGS, parts[1]) ELSE None

\* get_setting(key, default); key is given as key.split('.')
get_setting(parts, default) ==
    LET r == Traverse(SETTINGS, parts)
    IN  IF r.ok THEN r.value
        ELSE IF default # None THEN default ELSE DefaultGet(parts)

(***************************************************************************)
(* History store                                                           *)
(***************************************************************************)
\* load_history: the file's shown_memes, [] when the file does not exist
load_history == IF historyFile.exists THEN historyFile.content ELSE <<>>

\* save_history(history): the file after the write
save_history(h) == File(h)

\* the history on disk when the run started
Loaded == IF obs.file0.exists THEN obs.file0.content ELSE <<>>

\* Python's s[start:]
PySliceFrom(s, start) ==
    LET n == Len(s)
        i == IF start < 0 THEN Max(n + start, 0) ELSE Min(start, n)
    IN  SubSeq(s, i + 1, n)

(***************************************************************************)
(* get_random_meme                                                         *)
(***************************************************************************)
max_attempts == 25

\* a loop that stops one iteration early
LoopRunsOneLess(n) == n + 1 < max_attempts
\* `for _ in range(max_attempts)`: the loop body runs again after n runs
LoopRuns(n) == n < max_attempts

Urls == {PyStr("http://x/1.jpg"), PyStr("http://x/2.jpg")}
Titles == {PyStr("Hello"), PyStr("World")}

\* the JSON objects a Meme API body can be: any subset of the fields url
\* and title
Bodies ==
    UNION {{PyDict(f) : f \in {g \in [K -> Urls \cup Titles] :
                                 /\ "url" \in K => g["url"] \in Urls
                                 /\ "title" \in K => g["title"] \in Titles}}
           : K \in SUBSET {"url", "title"}}

\* what requests.get returns: a non-success status, a success whose body is
\* not JSON (response.json() raises), or a success with a JSON object
Responses ==
    {[status |-> 500, json |-> FALSE, data |-> None],
     [status |-> 200, json |-> FALSE, data |-> None]}
    \cup {[status |-> 200, json |-> TRUE, data |-> b] : b \in Bodies}

\* the request URL: the base endpoint, plus the subreddit when it is truthy
ApiUrl(subreddit) ==
    IF Truthy(subreddit) THEN <<"https://meme-api.com/gimme", subreddit.v>>
    ELSE <<"https://meme-api.com/gimme">>

\* a membership test that lets every URL through
IsNovelUnchecked(url, h) == TRUE
\* `meme_url not in history`
IsNovel(url, h) == url \notin Range(h)

\* the history after history.append(meme_url) and the truncation to
\* MAX_HISTORY
Appended(h, url) ==
    LET h1 == Append(h, url)
    IN  IF Len(h1) > MAX_HISTORY THEN PySliceFrom(h1, -MAX_HISTORY) ELSE h1

\* the response is a failed call, or a success whose url is in the history
FailOrDup(resp, h) ==
    \/ resp.status # 200
    \/ /\ resp.json
       /\ "url" \in DOMAIN resp.data.d
       /\ resp.data.d["url"] \in Range(h)

\* the response is a success with a url that is not in the history
NovelSuccess(resp, h) ==
    /\ resp.status = 200
    /\ resp.json
    /\ "url" \in DOMAIN resp.data.d
    /\ resp.data.d["url"] \notin Range(h)

\* the response is a success whose JSON body lacks the url field
Malformed(resp) ==
    resp.status = 200 /\ resp.json /\ "url" \notin DOMAIN resp.data.d

\* the subreddits argument: get_setting('subreddits')
subreddits == get_setting(<<"subreddits">>, None).v

UnchangedLater == UNCHANGED <<img_path, wallpaperFile, printed, at, rz, sw, gs>>
UnchangedGlobals == UNCHANGED <<settingsFile, SETTINGS, MAX_HISTORY>>

\* __main__ calls get_random_meme: history = load_history()
GetRandomMeme ==
    /\ pc = "main"
    /\ pc' = "loop"
    /\ history' = load_history
    /\ UNCHANGED <<historyFile, attempts, api_url, meme_title, meme_url,
                   seen, obs>>
    /\ UnchangedLater /\ UnchangedGlobals

\* one iteration of the for loop
Attempt ==
    /\ pc = "loop"
    /\ LoopRuns(attempts)
    /\ \E index \in 0..(Len(subreddits) - 1), resp \in Responses :
        LET subreddit == subreddits[index + 1]
            meme_url_ == DictGet(resp.data, "url")
            meme_title_ == DictGet(resp.data, "title")
        IN  /\ api_url' = ApiUrl(subreddit)
            /\ attempts' = attempts + 1
            /\ seen' = [onlyFailOrDup |->
                            seen.onlyFailOrDup /\ FailOrDup(resp, Loaded),
                        malformed |-> Malformed(resp),
                        novel |->
                            IF seen.novel = None
                               /\ NovelSuccess(resp, Loaded)
                            THEN [title |-> meme_title_, url |-> meme_url_,
                                  call |-> attempts + 1]
                            ELSE seen.novel]
            /\ IF resp.status = 200
               THEN IF ~resp.json
                    THEN \* response.json() raises
                         /\ pc' = "crashed"
                         /\ UNCHANGED <<history, historyFile, meme_title,
                                        meme_url, obs>>
                    ELSE IF IsNovel(meme_url_, history)
                         THEN /\ history' = Appended(history, meme_url_)
                              /\ historyFile' = save_history(history')
                              /\ meme_title' = meme_title_
                              /\ meme_url' = meme_url_
                              /\ pc' = "returned"
                              /\ obs' = [obs EXCEPT !.saves = @ + 1,
                                                    !.chosen = TRUE]
                         ELSE /\ pc' = "loop"
                              /\ UNCHANGED <<history, historyFile, meme_title,
                                             meme_url, obs>>
               ELSE /\ pc' = "loop"
                    /\ UNCHANGED <<history, historyFile, meme_title, meme_url,
                                   obs>>
    /\ UnchangedLater /\ UnchangedGlobals

\* the loop has run max_attempts times: return None, None
Exhausted ==
    /\ pc = "loop"
    /\ ~LoopRuns(attempts)
    /\ pc' = "returned"
    /\ meme_title' = None
    /\ meme_url' = None
    /\ obs' = [obs EXCEPT !.exhausted = TRUE]
    /\ UNCHANGED <<history, historyFile, attempts, api_url, seen>>
    /\ UnchangedLater /\ UnchangedGlobals

(***************************************************************************)
(* add_title_to_image                                                      *)
(***************************************************************************)
margin == 20

Image(w, h) == [width |-> w, height |-> h]

\* int(a / b) for b > 0: true division, truncated toward zero.  The
\* correctly rounded quotient of two small integers lies on the same side
\* of every integer as the exact quotient, so the truncation is exact.
TruncDiv(a, b) == IF a >= 0 THEN a \div b ELSE -((-a) \div b)

\* the width handed to textwrap.fill: int(max_width/20)
WrapWidth(image_width) == TruncDiv(image_width - 2 * margin, 20)

\* add_title_to_image(image, title), given the height of the wrapped
\* text's bounding box and whether ImageFont.truetype finds the font.
\* textwrap.fill raises ValueError for a width <= 0 and AttributeError for
\* a title that is None.
add_title_to_image(image, title, bbox, fontFound) ==
    LET name == get_setting(<<"font", "name">>, None)
        size == get_setting(<<"font", "size">>, None)
        font == IF name = None \/ size = None \/ ~fontFound
                THEN "load_default" ELSE name.v
        width == WrapWidth(image.width)
        text_height == bbox + 2 * margin
        bottom_strip_height == get_setting(<<"bottom_strip_height">>, None).v
    IN  IF title = None \/ width <= 0
        THEN [raised |-> TRUE, font |-> font, wrap |-> width]
        ELSE [raised |-> FALSE, font |-> font, wrap |-> width,
              text_height |-> text_height,
              bottom_strip_height |-> bottom_strip_height,
              image |-> Image(image.width,
                              image.height + text_height
                                  + bottom_strip_height)]

(***************************************************************************)
(* get_screen_resolution and resize_image                                  *)
(***************************************************************************)
Systems == {"Windows", "Linux", "Darwin", "FreeBSD"}
Screens == {<<1920, 1080>>, <<800, 600>>}

Pair(p) == [kind |-> "pair", w |-> p[1], h |-> p[2]]

\* the values get_screen_resolution can return on a platform: the probed
\* resolution, the fallback after an exception inside the try, on macOS a
\* lazy map object whose int() raises when the caller unpacks it, and on
\* any other platform None (no branch returns)
get_screen_resolution(system) ==
    IF system \in {"Windows", "Linux"}
    THEN {Pair(s) : s \in Screens} \cup {Pair(<<1920, 1080>>)}
    ELSE IF system = "Darwin"
    THEN {Pair(s) : s \in Screens} \cup {Pair(<<1920, 1080>>)}
         \cup {[kind |-> "map_raises"]}
    ELSE {[kind |-> "none"]}

\* the binary exponent of num/den: the a with 2^a <= num/den < 2^(a+1)
RECURSIVE FloorLog2(_, _)
FloorLog2(num, den) ==
    IF num < den THEN FloorLog2(2 * num, den) - 1
    ELSE IF num >= 2 * den THEN FloorLog2(num, 2 * den) + 1
    ELSE 0

RECURSIVE Pow2(_)
Pow2(k) == IF k = 0 THEN 1 ELSE 2 * Pow2(k - 1)

RECURSIVE Pow2Mod(_, _)
Pow2Mod(s, h) == IF s = 0 THEN 1 % h ELSE (2 * Pow2Mod(s - 1, h)) % h

\* original_ratio = image.width / image.height is the double m * 2^-s
\* nearest to w/h, with 2^52 <= m < 2^53.  RatioError is w * 2^s - m * h:
\* positive when the double lies below w/h, negative when above, 0 when
\* w/h is a double.
RatioError(w, h) ==
    LET s == 52 - FloorLog2(w, h)
        r0 == (w * Pow2Mod(s, h)) % h
    IN  IF 2 * r0 > h THEN r0 - h ELSE r0

\* A double operation on original_ratio whose exact result is the whole
\* number q gives the double just below q when the error it inherits from
\* original_ratio, q * |r| / (w * 2^s), exceeds half the gap between q and
\* the double before it (2^(e-52) for 2^e < q < 2^(e+1), 2^(e-53) for
\* q = 2^e).  sign is that of the RatioError for which the operation's
\* result errs downward: 1 for the product, -1 for the quotient.
RoundsBelow(q, w, h, sign) ==
    LET r == RatioError(w, h)
        absr == IF r < 0 THEN -r ELSE r
        k == FloorLog2(q, 1) - FloorLog2(w, h)
             - (IF Pow2(FloorLog2(q, 1)) = q THEN 1 ELSE 0)
    IN  /\ r * sign > 0
        /\ IF k >= 0 THEN 2 * q * absr > w * Pow2(k)
           ELSE 2 * q * absr * Pow2(-k) > w

\* int(target_height * original_ratio): the floor of the exact product,
\* or one less when the product is whole and the double product falls
\* short of it (int(49 * (1/49)) = 0)
IntOfProduct(target_height, w, h) ==
    LET q == (target_height * w) \div h
    IN  IF (target_height * w) % h = 0 /\ RoundsBelow(q, w, h, 1)
        THEN q - 1 ELSE q

\* int(target_width / original_ratio): the floor of the exact quotient, or
\* one less when the quotient is whole and the double quotient falls short
\* of it (int(9 / (9/7)) = 6)
IntOfQuotient(target_width, w, h) ==
    LET q == (target_width * h) \div w
    IN  IF (target_width * h) % w = 0 /\ RoundsBelow(q, w, h, -1)
        THEN q - 1 ELSE q

\* (new_width, new_height); target_ratio > original_ratio compares two
\* correctly rounded quotients of small integers, which order as the
\* exact ratios do
ScaledSize(image, target_width, target_height) ==
    LET w == image.width
        h == image.height
    IN  IF target_width * h > w * target_height
        THEN <<IntOfProduct(target_height, w, h), target_height>>
        ELSE <<target_width, IntOfQuotient(target_width, w, h)>>

\* resize_image(image, target_width, target_height).  Image.resize raises
\* ValueError for a size with a side below 1.
resize_image(image, target_width, target_height) ==
    LET new == ScaledSize(image, target_width, target_height)
    IN  IF new[1] < 1 \/ new[2] < 1
        THEN [raised |-> TRUE, scaled |-> new]
        ELSE [raised |-> FALSE, scaled |-> new,
              canvas |-> <<target_width, target_height>>,
              offset |-> <<(target_width - new[1]) \div 2,
                           (target_height - new[2]) \div 2>>]

(***************************************************************************)
(* download_image, set_wallpaper and the __main__ block                    *)
(***************************************************************************)
FallbackPath == PyStr("fallback_balrog.jpg")
TempPath == PyStr("random_meme_wallpaper.jpg")

\* the images a download can decode to, and the bundled fallback image
DownloadedImages == {Image(50, 80), Image(100, 80)}
FallbackImages == {Image(640, 480), Image(4000, 1)}

\* download_image(url, title): the possible outcomes.  path is the value
\* returned, file the JPEG written (None: no write), call the
\* add_title_to_image call made (None: not called).
download_image(url, title) ==
    {[status |-> 404, raised |-> FALSE, path |-> None, file |-> None,
      call |-> None],
     \* Image.open raises on bytes that are no image
     [status |-> 200, raised |-> TRUE, path |-> None, file |-> None,
      call |-> None]}
    \cup
    {LET out == add_title_to_image(image, title, bbox, fontFound)
         call == [image |-> image, title |-> title, bbox |-> bbox,
                  out |-> out]
     IN  IF out.raised
         THEN [status |-> 200, raised |-> TRUE, path |-> None, file |-> None,
               call |-> call]
         ELSE IF saved
         THEN [status |-> 200, raised |-> FALSE, path |-> TempPath,
               file |-> out.image, call |-> call]
         ELSE \* image.save raises (the write fails)
              [status |-> 200, raised |-> TRUE, path |-> None, file |-> None,
               call |-> call]
     : image \in DownloadedImages, bbox \in {0, MaxBBox},
       fontFound \in BOOLEAN, saved \in BOOLEAN}

\* the image Image.open(image_path) can give: what download_image wrote, or
\* the bundled file, which may be missing or unreadable (None: open raises)
Openable(image_path) ==
    IF image_path = TempPath THEN {wallpaperFile}
    ELSE FallbackImages \cup {None}

\* set_wallpaper(image_path): the possible outcomes.  result is "True",
\* "False" or "raised"; fault names the step that failed.
set_wallpaper(image_path) ==
    UNION {
      IF image = None
      THEN {[result |-> "raised", fault |-> "open", system |-> system,
             file |-> None, call |-> None]}
      ELSE UNION {
        IF res.kind # "pair"
        THEN \* unpacking None or the raising map object
             {[result |-> "raised", fault |-> "probe", system |-> system,
               file |-> None, call |-> None]}
        ELSE LET out == resize_image(image, res.w, res.h)
                 call == [image |-> image, target |-> <<res.w, res.h>>,
                          out |-> out]
             IN  IF out.raised
                 THEN {[result |-> "raised", fault |-> "resize",
                        system |-> system, file |-> None, call |-> call]}
                 ELSE {\* image.save raises (the write fails)
                       [result |-> "raised", fault |-> "save",
                        system |-> system, file |-> None, call |-> call],
                       \* the platform mechanism raises inside the try
                       [result |-> "False", fault |-> "mechanism",
                        system |-> system,
                        file |-> Image(out.canvas[1], out.canvas[2]),
                        call |-> call],
                       [result |-> "True", fault |-> "none",
                        system |-> system,
                        file |-> Image(out.canvas[1], out.canvas[2]),
                        call |-> call]}
        : res \in get_screen_resolution(system)}
      : image \in Openable(image_path), system \in Systems}

\* `if meme_url:` img_path = download_image(meme_url, meme_title).
\* get_random_meme's frame is gone: its locals are dropped.
MainDownload ==
    /\ pc = "returned"
    /\ Truthy(meme_url)
    /\ \E o \in download_image(meme_url, meme_title) :
        /\ pc' = IF o.raised THEN "crashed" ELSE "have_path"
        /\ img_path' = o.path
        /\ wallpaperFile' = IF o.file # None THEN o.file ELSE wallpaperFile
        /\ at' = IF o.call # None THEN o.call ELSE at
        /\ obs' = [obs EXCEPT
                     !.download = IF o.status # 200 THEN "failed"
                                  ELSE IF o.raised THEN "raised" ELSE "ok",
                     !.wpWrites = IF o.file # None THEN @ + 1 ELSE @]
    /\ history' = <<>> /\ attempts' = 0 /\ api_url' = <<>>
    /\ seen' = [onlyFailOrDup |-> TRUE, malformed |-> FALSE, novel |-> None]
    /\ UNCHANGED <<historyFile, meme_title, meme_url, printed, rz, sw, gs>>
    /\ UnchangedGlobals

\* `else:` img_path = the bundled fallback image
MainFallback ==
    /\ pc = "returned"
    /\ ~Truthy(meme_url)
    /\ pc' = "have_path"
    /\ img_path' = FallbackPath
    /\ history' = <<>> /\ attempts' = 0 /\ api_url' = <<>>
    /\ seen' = [onlyFailOrDup |-> TRUE, malformed |-> FALSE, novel |-> None]
    /\ UNCHANGED <<historyFile, meme_title, meme_url, wallpaperFile, printed,
                   at, rz, sw, gs, obs>>
    /\ UnchangedGlobals

\* a condition that does not look at img_path
HasPathUnchecked(path) == TRUE
\* `if img_path and set_wallpaper(img_path)`: img_path is truthy
HasPath(path) == Truthy(path)

MainApply ==
    /\ pc = "have_path"
    /\ HasPath(img_path)
    /\ \E o \in set_wallpaper(img_path) :
        /\ sw' = [arg |-> img_path, system |-> o.system,
                  result |-> o.result, fault |-> o.fault]
        /\ rz' = IF o.call # None THEN o.call ELSE rz
        /\ wallpaperFile' = IF o.file # None THEN o.file ELSE wallpaperFile
        /\ obs' = [obs EXCEPT !.applied = img_path,
                              !.wpWrites = IF o.file # None THEN @ + 1 ELSE @]
        /\ pc' = IF o.result = "raised" THEN "crashed" ELSE "done"
        /\ printed' = IF o.result = "True"
                      THEN PyList(<<"Wallpaper updated!", img_path>>)
                      ELSE IF o.result = "False"
                      THEN PyStr("Failed to update wallpaper.")
                      ELSE printed
    /\ UNCHANGED <<historyFile, history, attempts, api_url, meme_title,
                   meme_url, img_path, at, gs, seen>>
    /\ UnchangedGlobals

\* img_path is None: set_wallpaper is not called
MainNoPath ==
    /\ pc = "have_path"
    /\ ~HasPath(img_path)
    /\ pc' = "done"
    /\ printed' = PyStr("Failed to update wallpaper.")
    /\ UNCHANGED <<historyFile, history, attempts, api_url, meme_title,
                   meme_url, img_path, wallpaperFile, at, rz, sw, gs, seen,
                   obs>>
    /\ UnchangedGlobals

(***************************************************************************)
(* Initial states                                                          *)
(***************************************************************************)
\* an absent key is <<>>, a present one <<value>>
Options(values) == {<<>>} \cup {<<v>> : v \in values}

FontObjects ==
    {PyDict([k \in {x \in {"name", "size"} :
                      (x = "name" /\ n # <<>>) \/ (x = "size" /\ z # <<>>)}
             |-> IF k = "name" THEN n[1] ELSE z[1]])
     : n \in Options({PyStr("comic.ttf")}), z \in Options({PyInt(12)})}

\* the JSON objects a settings.json can hold: any subset of the keys
SettingsObjects ==
    {PyDict([k \in {x \in {"font", "bottom_strip_height", "max_history",
                           "subreddits"} :
                      \/ x = "font" /\ f # <<>>
                      \/ x = "bottom_strip_height" /\ b # <<>>
                      \/ x = "max_history" /\ m # <<>>
                      \/ x = "subreddits" /\ r # <<>>}
             |-> CASE k = "font" -> f[1]
                   [] k = "bottom_strip_height" -> b[1]
                   [] k = "max_history" -> m[1]
                   [] k = "subreddits" -> r[1]])
     : f \in Options(FontObjects),
       b \in Options({PyInt(10)}),
       m \in Options({PyInt(n) : n \in 0..MaxMaxHistory}),
       r \in Options({PyList(<<None, PyStr("memes")>>)})}

SettingsFiles == {NoFile} \cup {File(o) : o \in SettingsObjects}

\* the settings files of the pipeline's runs: those that set at most
\* max_history and subreddits
PipelineSettingsFiles ==
    {f \in SettingsFiles :
        f.exists => DOMAIN f.content.d \subseteq {"max_history", "subreddits"}}

\* the histories a run can find on disk: no URL twice (a URL is appended
\* only when it is not in the list); null is what an earlier run appended
\* for a body without url
Histories ==
    {h \in UNION {[1..n -> Urls \cup {None}] : n \in 0..MaxHistLen} :
        \A i, j \in DOMAIN h : i # j => h[i] # h[j]}

HistoryFiles == {NoFile} \cup {File(h) : h \in Histories}

\* the state after import: SETTINGS = load_settings(),
\* MAX_HISTORY = get_setting('max_history')
InitWith(sfiles, hfiles, start) ==
    /\ settingsFile \in sfiles
    /\ SETTINGS = load_settings(settingsFile)
    /\ MAX_HISTORY = get_setting(<<"max_history">>, None).v
    /\ historyFile \in hfiles
    /\ history = <<>>
    /\ attempts = 0
    /\ api_url = <<>>
    /\ pc = start
    /\ meme_title = None
    /\ meme_url = None
    /\ img_path = None
    /\ wallpaperFile = None
    /\ printed = None
    /\ at = None
    /\ rz = None
    /\ sw = None
    /\ gs = None
    /\ seen = [onlyFailOrDup |-> TRUE, malformed |-> FALSE, novel |-> None]
    /\ obs = [file0 |-> historyFile, saves |-> 0, chosen |-> FALSE,
              exhausted |-> FALSE, download |-> "none", wpWrites |-> 0,
              applied |-> None]

(***************************************************************************)
(* The run of the program                                                  *)
(***************************************************************************)
Init == InitWith(PipelineSettingsFiles, HistoryFiles, "main")

Next ==
    \/ GetRandomMeme
    \/ Attempt
    \/ Exhausted
    \/ MainDownload
    \/ MainFallback
    \/ MainApply
    \/ MainNoPath

Spec == Init /\ [][Next]_vars

(***************************************************************************)
(* resize_image on its own: every image and target size up to MaxDim       *)
(***************************************************************************)
InitResize == InitWith({NoFile}, {NoFile}, "resize_image")

ResizeImage ==
    /\ pc = "resize_image"
    /\ pc' = "done"
    /\ \E w \in 1..MaxDim, h \in 1..MaxDim, tw \in 1..MaxDim,
          th \in 1..MaxDim :
        rz' = [image |-> Image(w, h), target |-> <<tw, th>>,
               out |-> resize_image(Image(w, h), tw, th)]
    /\ UNCHANGED <<settingsFile, SETTINGS, MAX_HISTORY, historyFile, history,
                   attempts, api_url, meme_title, meme_url, img_path,
                   wallpaperFile, printed, at, sw, gs, seen, obs>>

NextResize == ResizeImage

SpecResize == InitResize /\ [][NextResize]_vars

(***************************************************************************)
(* add_title_to_image on its own                                           *)
(***************************************************************************)
\* settings files that set at most the font and the bottom strip
TitleSettingsFiles ==
    {f \in SettingsFiles :
        f.exists => DOMAIN f.content.d \subseteq {"font",
                                                  "bottom_strip_height"}}

InitTitle == InitWith(TitleSettingsFiles, {NoFile}, "add_title_to_image")

AddTitle ==
    /\ pc = "add_title_to_image"
    /\ pc' = "done"
    /\ \E w10 \in 1..MaxWidth10, h \in {1, 80},
          title \in Titles \cup {PyStr("")}, bbox \in 0..MaxBBox,
          fontFound \in BOOLEAN :
        at' = [image |-> Image(10 * w10, h), title |-> title, bbox |-> bbox,
               out |-> add_title_to_image(Image(10 * w10, h), title, bbox,
                                          fontFound)]
    /\ UNCHANGED <<settingsFile, SETTINGS, MAX_HISTORY, historyFile, history,
                   attempts, api_url, meme_title, meme_url, img_path,
                   wallpaperFile, printed, rz, sw, gs, seen, obs>>

NextTitle == AddTitle

SpecTitle == InitTitle /\ [][NextTitle]_vars

(***************************************************************************)
(* get_setting on its own: every settings file, every key                  *)
(***************************************************************************)
SettingKeys == {<<"font", "name">>, <<"font", "size">>,
                <<"bottom_strip_height">>, <<"max_history">>,
                <<"subreddits">>}

InitSettings == InitWith(SettingsFiles, {NoFile}, "get_setting")

GetSetting ==
    /\ pc = "get_setting"
    /\ pc' = "done"
    /\ \E key \in SettingKeys :
        gs' = [key |-> key, value |-> get_setting(key, None)]
    /\ UNCHANGED <<settingsFile, SETTINGS, MAX_HISTORY, historyFile, history,
                   attempts, api_url, meme_title, meme_url, img_path,
                   wallpaperFile, printed, at, rz, sw, seen, obs>>

NextSettings == GetSetting

SpecSettings == InitSettings /\ [][NextSettings]_vars

(***************************************************************************)
(* Properties                                                              *)
(***************************************************************************)

\* C1: when get_random_meme accepts a novel URL u, the history it writes is
\* the last MAX_HISTORY elements of the loaded history followed by u (all
\* of it when that is not longer than MAX_HISTORY), in order, so the
\* written history is never longer than MAX_HISTORY.
C1_SavedIsNewestMaxHistory ==
    (pc = "returned" /\ obs.chosen /\ meme_url \in Urls) =>
        LET full == Append(Loaded, meme_url)
            keep == Min(MAX_HISTORY, Len(full))
        IN  /\ historyFile = File(SubSeq(full, Len(full) - keep + 1,
                                         Len(full)))
            /\ Len(historyFile.content) <= MAX_HISTORY

\* C2: get_random_meme never returns a URL of the loaded history, and the
\* candidate it returns is the first response that is a success with a URL
\* not in the history, returned at the call that received it: it returns
\* at no other response, and makes no call after that one.
C2_ReturnsFirstNovel ==
    /\ (pc = "returned" /\ obs.chosen) =>
           /\ meme_url \notin Range(Loaded)
           /\ seen.novel # None
           /\ meme_title = seen.novel.title
           /\ meme_url = seen.novel.url
           /\ attempts = seen.novel.call
    /\ (pc \in {"loop", "returned"} /\ seen.novel # None) =>
           /\ pc = "returned"
           /\ obs.chosen
           /\ attempts = seen.novel.call

C4_MalformedIsFailedAttempt ==
    (seen.malformed /\ pc \in {"loop", "returned", "crashed"}) =>
        /\ pc = "loop"
        /\ history = Loaded
        /\ historyFile = obs.file0
        /\ obs.saves = 0

C6_NeverRaises ==
    sw # None =>
        /\ sw.result # "raised"
        /\ sw.fault # "none" => sw.result = "False"

\* C7: set_wallpaper is invoked exactly when an image path is available,
\* and with that path: the fallback image after exhaustion, the temp file
\* after a successful download; after a non-success download response it
\* is not invoked, the wallpaper file is not written, and the run ends
\* printing "Failed to update wallpaper."
C7_AppliedIffPath ==
    /\ obs.applied # None => obs.applied = img_path
    /\ pc \in {"done", "crashed"} => (Truthy(img_path) <=> sw # None)
    /\ sw # None => sw.arg = img_path /\ obs.applied = img_path
    /\ (obs.exhausted /\ pc \in {"have_path", "done", "crashed"}) =>
           /\ img_path = FallbackPath
           /\ pc # "have_path" => sw # None /\ sw.arg = FallbackPath
    /\ obs.download = "ok" =>
           /\ img_path = TempPath
           /\ pc # "have_path" => sw # None /\ sw.arg = TempPath
    /\ obs.download = "failed" =>
           /\ img_path = None
           /\ sw = None
           /\ obs.wpWrites = 0
           /\ wallpaperFile = None
           /\ pc \in {"have_path", "done"}
           /\ pc = "have_path" => ENABLED MainNoPath
           /\ pc = "done" => printed = PyStr("Failed to update wallpaper.")

\* C7 witness: a run whose download got a non-success response has ended.
C7_Witness ==
    /\ pc = "done"
    /\ obs.download = "failed"
    /\ obs.chosen
    /\ printed = PyStr("Failed to update wallpaper.")

\* C8: resize_image returns a canvas of exactly the target size, holding
\* the image scaled to (round(H*w/h), H) when W/H > w/h and to
\* (W, round(W*h/w)) otherwise, pasted at ((W - sw) div 2, (H - sh) div 2),
\* the scaled image exceeding the canvas in neither dimension.
C8_LetterboxRounded ==
    rz # None =>
        LET w == rz.image.width
            h == rz.image.height
            W == rz.target[1]
            H == rz.target[2]
            round(num, den) ==   \* Python's round(num/den)
                LET q == num \div den
                    r2 == 2 * (num % den)
                IN  IF r2 < den THEN q
                    ELSE IF r2 > den THEN q + 1
                    ELSE IF q % 2 = 0 THEN q ELSE q + 1
        IN  /\ ~rz.out.raised
            /\ rz.out.canvas = <<W, H>>
            /\ rz.out.scaled = IF W * h > w * H
                               THEN <<round(H * w, h), H>>
                               ELSE <<W, round(W * h, w)>>
            /\ rz.out.offset = <<(W - rz.out.scaled[1]) \div 2,
                                 (H - rz.out.scaled[2]) \div 2>>
            /\ rz.out.scaled[1] <= W
            /\ rz.out.scaled[2] <= H

\* C9: add_title_to_image never raises: for every image and title it wraps
\* at int((width - 40)/20) columns and returns an image of the source's
\* width and of height source height + caption band + bottom strip.
C9_NoErrorPath ==
    at # None =>
        /\ ~at.out.raised
        /\ at.out.wrap = TruncDiv(at.image.width - 2 * 20, 20)
        /\ at.out.image.width = at.image.width
        /\ at.out.image.height = at.image.height + at.out.text_height
                                 + at.out.bottom_strip_height

\* C10: get_setting returns the settings file's value for a key the file
\* has, and otherwise, the file being absent or lacking the key, the
\* built-in default: "arial.ttf", 40, 50, 100, the default subreddit list.
C10_FileValueOrDefault ==
    gs # None =>
        LET inFile == IF settingsFile.exists
                      THEN Traverse(settingsFile.content, gs.key)
                      ELSE [ok |-> FALSE]
            builtin ==
                CASE gs.key = <<"font", "name">> -> PyStr("arial.ttf")
                  [] gs.key = <<"font", "size">> -> PyInt(40)
                  [] gs.key = <<"bottom_strip_height">> -> PyInt(50)
                  [] gs.key = <<"max_history">> -> PyInt(100)
                  [] gs.key = <<"subreddits">> ->
                         PyList(<<None, PyStr("programmingmemes"),
                                  PyStr("ProgrammerHumor"),
                                  PyStr("lotrmemes"), PyStr("MEOW_IRL"),
                                  PyStr("YouSeeComrade"),
                                  PyStr("DunderMifflin"),
                                  PyStr("workmemes")>>)
        IN  gs.value = IF inFile.ok THEN inFile.value ELSE builtin

====
